---- MODULE Spec2Model ----
(***************************************************************************)
(* Model of the WordPress instance manager that runs inside the DinD host  *)
(* container (images/docker-dind-wp/instance-manager.sh): the instance     *)
(* directories, the per-instance metadata files, the workspace config      *)
(* document, the container engine's networks and containers, and the       *)
(* commands create, start, stop, remove and clone, run one at a time.      *)
(***************************************************************************)
EXTENDS Integers, Sequences, FiniteSets, TLC

\* ------------------------------------------------------------------------
\* Program constants
\* ------------------------------------------------------------------------

\* INSTANCE_PORT_START=8001
INSTANCE_PORT_START == 8001

\* NETWORK_PREFIX="wp-network"
NETWORK_PREFIX == "wp-network"

\* ------------------------------------------------------------------------
\* Bounds of the model
\* ------------------------------------------------------------------------

\* number of manager commands run in one behaviour
MaxCommands == 4

\* longest list of recorded ports handed to get_next_port in SpecPorts
MaxListed == 3

\* ------------------------------------------------------------------------
\* Input domains
\* ------------------------------------------------------------------------

\* Instance names are sequences of characters.
EmptyName == << >>

DottedName == <<"x", ".", "y">>

Names == { <<"a">>, <<"b", "-", "1">>, DottedName }

NameArgs == Names \cup {EmptyName}

Webservers == {"nginx", "apache"}

WebserverArgs == Webservers \cup {"caddy"}

Strategies == {"symlink", "copy-all", "copy-files"}

StrategyArgs == Strategies \cup {"move"}

\* What `read -p "Are you sure? (yes/no): " confirm` can deliver: a line of
\* text, or end of input ("EOF") when no confirmation input is available.
Answers == {"yes", "no", "y", "EOF"}

Services == {"mysql", "php", "web"}

\* How the workspace config file appears inside the host container:
\*   "absent"   - no file at WORKSPACE_CONFIG
\*   "plain"    - a regular, writable file
\*   "readonly" - the read-only single-file bind mount of the generated
\*                compose file (mv onto it fails)
ConfigModes == {"absent", "plain", "readonly"}

VARIABLES
    env,         \* DEFAULT_MYSQL_VERSION, DEFAULT_PHP_VERSION and
                 \* DEFAULT_WEBSERVER in the environment ("" when unset)
    cfgMode,     \* how WORKSPACE_CONFIG exists (see ConfigModes)
    cfg,         \* .instances of the workspace config, in insertion order
    dirs,        \* names that have a directory under INSTANCES_DIR
    info,        \* name -> contents of its .instance-info, and the host
                 \* port its docker-compose.yml publishes
    wp,          \* name -> its data/wordpress entry (own tree or symlink)
    tree,        \* name -> the files in its data/wordpress directory
    db,          \* name -> the rows in its data/mysql
    drawn,       \* number of passwords taken from openssl rand so far
    networks,    \* the container engine's networks
    containers,  \* name -> service -> state of the container
    last,        \* the last command run and its outcome
    ncmd,        \* number of commands run so far
    procs        \* the invocations of instance-manager.sh that run at the
                 \* same time: each one's command, position and locals

vars == <<env, cfgMode, cfg, dirs, info, wp, tree, db, drawn, networks, containers,
          last, ncmd, procs>>

\* no invocation runs beside the one at hand
NoProcs == << >>

\* ------------------------------------------------------------------------
\* Port allocator
\* ------------------------------------------------------------------------

\* body of the for loop of get_next_port, with -gt in place of -ge
PortStepGt(port, max_port) ==
    IF port > max_port THEN port + 1 ELSE max_port

\* body of the for loop of get_next_port
PortStep(port, max_port) ==
    IF port >= max_port THEN port + 1 ELSE max_port

RECURSIVE PortLoop(_, _)
\* for port in $ports; do ... done
PortLoop(ports, max_port) ==
    IF ports = << >> THEN max_port
    ELSE PortLoop(Tail(ports), PortStep(Head(ports), max_port))

\* jq -r '.instances | to_entries[] | .value.port // empty'
ConfigPorts(c) == [i \in 1..Len(c) |-> c[i].port]

\* a get_next_port that does not read the workspace config
get_next_port_first(m, c) == INSTANCE_PORT_START

\* get_next_port, for a workspace config in mode m with instances c
get_next_port(m, c) ==
    IF m # "absent" THEN PortLoop(ConfigPorts(c), INSTANCE_PORT_START)
    ELSE INSTANCE_PORT_START

\* ------------------------------------------------------------------------
\* Workspace config store
\* ------------------------------------------------------------------------

ConfigNames(c) == {c[i].name : i \in 1..Len(c)}

ConfigEntry(name, port, webserver) ==
    [name |-> name, port |-> port, webserver |-> webserver, status |-> "created"]

\* a jq filter that sets the port of every instance, then the new entry
SetEntryAll(c, name, port, webserver) ==
    Append([i \in 1..Len(c) |-> [c[i] EXCEPT !.port = port]],
           ConfigEntry(name, port, webserver))

\* jq '.instances[$name] = {...}': replaces the entry of an existing key in
\* place, appends a new key
SetEntry(c, name, port, webserver) ==
    IF name \in ConfigNames(c)
    THEN [i \in 1..Len(c) |->
             IF c[i].name = name THEN ConfigEntry(name, port, webserver) ELSE c[i]]
    ELSE Append(c, ConfigEntry(name, port, webserver))

\* jq 'del(.instances)'
DelEntryAll(c, name) == << >>

\* jq 'del(.instances[$name])'
DelEntry(c, name) == SelectSeq(c, LAMBDA e : e.name # name)

\* save_instance_to_config: the resulting instances and the exit status
save_instance_to_config(m, c, name, port, webserver) ==
    CASE m = "absent"   -> [cfg |-> c, exit |-> 0]
      [] m = "plain"    -> [cfg |-> SetEntry(c, name, port, webserver), exit |-> 0]
      [] m = "readonly" -> [cfg |-> c, exit |-> 1]

\* remove_instance_from_config: the resulting instances and the exit status
remove_instance_from_config(m, c, name) ==
    CASE m = "absent"   -> [cfg |-> c, exit |-> 0]
      [] m = "plain"    -> [cfg |-> DelEntry(c, name), exit |-> 0]
      [] m = "readonly" -> [cfg |-> c, exit |-> 1]

\* ------------------------------------------------------------------------
\* Helpers for files and directories
\* ------------------------------------------------------------------------

Put(f, k, v) == [x \in (DOMAIN f) \cup {k} |-> IF x = k THEN v ELSE f[x]]

Drop(f, k) == [x \in (DOMAIN f) \ {k} |-> f[x]]

\* [ -d "${INSTANCES_DIR}/${name}" ]: with an empty name the path is
\* INSTANCES_DIR itself, which exists
DirExists(d, name) == name = EmptyName \/ name \in d

\* mkdir -p "${instance_dir}"/data/wordpress: the instance's own file tree
OwnTree(name) == [kind |-> "dir", target |-> name]

\* ln -s "${source_dir}/data/wordpress" "${target_dir}/data/wordpress"
LinkTo(source_name) == [kind |-> "link", target |-> source_name]

\* cp -a "${source_dir}/data/wordpress" "${target_dir}/data/wordpress":
\* -a copies a directory tree, and copies a symlink as a symlink
CopyOf(w, source_name, target_name) ==
    IF w[source_name].kind = "link" THEN w[source_name] ELSE OwnTree(target_name)

\* the symlink strategy leaving the target's own directory in place
KeepOwnTree(w, t, source_name, target_name) == [wp |-> w, tree |-> t]

\* the symlink strategy: rm -rf "${target_dir}/data/wordpress" and ln -s of
\* the source's in its place
SymlinkTree(w, t, source_name, target_name) ==
    [wp |-> Put(w, target_name, LinkTo(source_name)),
     tree |-> Drop(t, target_name)]

\* no directory: the path does not resolve
NoTree == <<"dangling">>

RECURSIVE Resolve(_, _, _)
\* the directory the path ${INSTANCES_DIR}/<name>/data/wordpress resolves
\* to, following symlinks; seen are the names already passed through
Resolve(w, name, seen) ==
    CASE name \notin DOMAIN w \/ name \in seen -> NoTree
      [] name \in DOMAIN w /\ name \notin seen /\ w[name].kind = "dir" -> name
      [] OTHER -> Resolve(w, w[name].target, seen \cup {name})

\* the instance whose directory holds the files seen under name's tree
Backing(w, name) == Resolve(w, name, {})

\* the files seen under ${INSTANCES_DIR}/<name>/data/wordpress
View(w, t, name) ==
    IF Backing(w, name) \in DOMAIN t THEN t[Backing(w, name)] ELSE {}

\* cp -a that copies no file
CopyNothing(w, t, source_name, target_name) ==
    IF w[source_name].kind = "link" THEN Drop(t, target_name)
    ELSE Put(t, target_name, {})

\* rm -rf "${target_dir}/data/wordpress" followed by cp -a of the source's:
\* a directory is copied with its files, a symlink leaves no directory
CopyFiles(w, t, source_name, target_name) ==
    IF w[source_name].kind = "link" THEN Drop(t, target_name)
    ELSE Put(t, target_name, t[source_name])

\* openssl rand -base64 32 | tr -d "=+/" | cut -c1-25: the k-th output of
\* the random source, taken to differ from every other output
Password(k) == <<"rand", k>>

\* ------------------------------------------------------------------------
\* Container engine: networks
\* ------------------------------------------------------------------------

\* "${NETWORK_PREFIX}-${instance_id}"
NetName(id) == <<NETWORK_PREFIX, id>>

\* "172.20.${instance_id}.0/24"
Subnet(id) == <<172, 20, id, 0, 24>>

InstanceNet(id) == [name |-> NetName(id), subnet |-> Subnet(id)]

\* docker network create --driver bridge --subnet 172.21.0.0/16 "wp-shared"
SharedNet == [name |-> <<"wp-shared">>, subnet |-> <<172, 21, 0, 0, 16>>]

NoNet == <<"none">>

\* docker network inspect "$network_name" succeeds
network_inspect(nets, name) == \E n \in nets : n.name = name

\* docker network create succeeds: the engine refuses a name that is taken
\* and a subnet that overlaps an existing network's (all subnets here are
\* distinct /24 blocks of 172.20.0.0/16 or the /16 block 172.21.0.0/16, so
\* two of them overlap exactly when they are equal)
network_create_ok(nets, net) ==
    \A n \in nets : n.name # net.name /\ n.subnet # net.subnet

\* docker network create wp-shared without asking whether it exists
ensure_shared_network_blind(nets) ==
    [networks |-> IF network_create_ok(nets, SharedNet) THEN nets \cup {SharedNet}
                  ELSE nets,
     ok |-> network_create_ok(nets, SharedNet)]

\* if ! docker network inspect wp-shared; then docker network create ...
\* wp-shared; fi: the networks it leaves and whether it succeeded
ensure_shared_network(nets) ==
    IF network_inspect(nets, SharedNet.name)
    THEN [networks |-> nets, ok |-> TRUE]
    ELSE [networks |-> IF network_create_ok(nets, SharedNet)
                       THEN nets \cup {SharedNet} ELSE nets,
          ok |-> network_create_ok(nets, SharedNet)]

\* find "$INSTANCES_DIR" -maxdepth 1 -type d | wc -l: INSTANCES_DIR itself
\* and every directory directly under it
instance_id(d) == Cardinality(d) + 1

\* ------------------------------------------------------------------------
\* Container engine: containers of one instance's compose project
\* ------------------------------------------------------------------------

NoContainers == [s \in Services |-> "none"]

AllRunning == [s \in Services |-> "running"]

\* the web-server container of another instance is running and publishes
\* host port p
PortBound(ct, inf, name, p) ==
    \E o \in DOMAIN inf :
        o # name /\ inf[o].port = p /\ ct[o]["web"] = "running"

\* docker-compose up -d: creates and starts mysql, php and the web server;
\* the web server is created but cannot start when its host port is bound
compose_up(ct, inf, name) ==
    IF PortBound(ct, inf, name, inf[name].port)
    THEN [state |-> [s \in Services |->
                        IF s = "web"
                        THEN (IF ct[name][s] = "running" THEN "running" ELSE "stopped")
                        ELSE "running"],
          exit |-> IF ct[name]["web"] = "running" THEN 0 ELSE 1]
    ELSE [state |-> AllRunning, exit |-> 0]

\* networks: of every service in the instance's docker-compose.yml: the
\* networks each of its containers is attached to
service_networks(inf, name) == {inf[name].network, SharedNet.name}

\* docker-compose stop that also removes the containers it finds stopped
compose_stop_rm(c) ==
    [s \in Services |-> IF c[s] = "running" THEN "stopped" ELSE "none"]

\* docker-compose stop: stops the running containers of the project
compose_stop(c) == [s \in Services |-> IF c[s] = "running" THEN "stopped" ELSE c[s]]

\* docker-compose down -v: removes the project's containers and volumes
\* (the networks are declared external and stay)
compose_down(c) == NoContainers

\* ------------------------------------------------------------------------
\* Outcome of a command
\* ------------------------------------------------------------------------

\* The command line that ran and what it reported: exit status, the stage
\* it stopped at, and for create/clone the port and network it assigned and
\* whether that network already existed in the engine.
Outcome(op, name, arg, src, exit, why, port, net, netExisted) ==
    [op |-> op, name |-> name, arg |-> arg, src |-> src, exit |-> exit,
     why |-> why, port |-> port, network |-> net, netExisted |-> netExisted]

NoOutcome == Outcome("none", EmptyName, "", EmptyName, 0, "", 0, NoNet, FALSE)

\* ------------------------------------------------------------------------
\* create_instance
\* ------------------------------------------------------------------------

\* an environment in which none of the defaults is set
NoEnv == [DEFAULT_MYSQL_VERSION |-> "", DEFAULT_PHP_VERSION |-> "",
          DEFAULT_WEBSERVER |-> "", WORKSPACE_TYPE |-> ""]

\* ${value:-fallback}: the fallback when the value is unset or empty
OrDefault(value, fallback) == IF value = "" THEN fallback ELSE value

\* DEFAULT_MYSQL_VERSION="${DEFAULT_MYSQL_VERSION:-80}"
DEFAULT_MYSQL_VERSION(e) == OrDefault(e.DEFAULT_MYSQL_VERSION, "80")

\* DEFAULT_PHP_VERSION="${DEFAULT_PHP_VERSION:-83}"
DEFAULT_PHP_VERSION(e) == OrDefault(e.DEFAULT_PHP_VERSION, "83")

\* DEFAULT_WEBSERVER="${DEFAULT_WEBSERVER:-nginx}"
DEFAULT_WEBSERVER(e) == OrDefault(e.DEFAULT_WEBSERVER, "nginx")

\* case $mysql_version in ... esac with an unknown code mapped to the
\* oldest image
mysql_image_version_oldest(mysql_version) ==
    CASE mysql_version = "56" -> "5.6.51"
      [] mysql_version = "57" -> "5.7.44"
      [] mysql_version = "80" -> "8.0.40"
      [] OTHER -> "5.6.51"

\* case $mysql_version in ... esac
mysql_image_version(mysql_version) ==
    CASE mysql_version = "56" -> "5.6.51"
      [] mysql_version = "57" -> "5.7.44"
      [] mysql_version = "80" -> "8.0.40"
      [] OTHER -> "8.0.40"

\* case $php_version in ... esac
php_image_version(php_version) ==
    CASE php_version = "74" -> "7.4.33"
      [] php_version = "80" -> "8.0.30"
      [] php_version = "81" -> "8.1.31"
      [] php_version = "82" -> "8.2.26"
      [] php_version = "83" -> "8.3.14"
      [] OTHER -> "8.3.14"

\* the webserver check of create_instance, accepting every value
valid_webserver_any(webserver) == TRUE

\* [ "$webserver" != "nginx" ] && [ "$webserver" != "apache" ] is false
valid_webserver(webserver) == webserver \in Webservers

\* create_instance "$name" "$mysql_version" "$php_version" "$webserver" (an
\* omitted argument being "") run in the environment st.env on the files
\* st.dirs, st.info,
\* st.wp, st.tree, st.db, the config (st.cfgMode, st.cfg), the engine
\* networks st.networks and the random source at st.drawn: the files,
\* config and networks it leaves, its exit status, and what it assigned.
create_instance(st, name, mysql_arg, php_arg, webserver_arg) ==
    LET mysql_version == OrDefault(mysql_arg, DEFAULT_MYSQL_VERSION(st.env))
        php_version   == OrDefault(php_arg, DEFAULT_PHP_VERSION(st.env))
        webserver     == OrDefault(webserver_arg, DEFAULT_WEBSERVER(st.env))
        instance_port == get_next_port(st.cfgMode, st.cfg)
        newDirs       == st.dirs \cup {name}
        id            == instance_id(newDirs)
        network_name  == NetName(id)
        existed       == network_inspect(st.networks, network_name)
        netOk         == existed \/ network_create_ok(st.networks, InstanceNet(id))
        nets1         == IF existed THEN st.networks
                         ELSE st.networks \cup {InstanceNet(id)}
        shared        == ensure_shared_network(nets1)
        nets2         == shared.networks
        saved         == save_instance_to_config(st.cfgMode, st.cfg, name,
                                                 instance_port, webserver)
        db_password   == Password(st.drawn + 1)
        db_root_password == Password(st.drawn + 2)
        unchanged     == [dirs |-> st.dirs, info |-> st.info, wp |-> st.wp,
                          tree |-> st.tree, db |-> st.db, drawn |-> st.drawn,
                          networks |-> st.networks, cfg |-> st.cfg,
                          port |-> 0, network |-> NoNet, netExisted |-> FALSE]
    IN  CASE DirExists(st.dirs, name) ->
                unchanged @@ [exit |-> 1, why |-> "exists"]
          [] ~DirExists(st.dirs, name) /\ ~valid_webserver(webserver) ->
                unchanged @@ [exit |-> 1, why |-> "webserver"]
          [] ~DirExists(st.dirs, name) /\ valid_webserver(webserver) /\ ~netOk ->
                [dirs |-> newDirs, info |-> st.info,
                 wp |-> Put(st.wp, name, OwnTree(name)),
                 tree |-> Put(st.tree, name, {}),
                 db |-> Put(st.db, name, {}), drawn |-> st.drawn + 2,
                 networks |-> st.networks, cfg |-> st.cfg,
                 port |-> instance_port, network |-> network_name,
                 netExisted |-> existed, exit |-> 1, why |-> "network"]
          [] ~DirExists(st.dirs, name) /\ valid_webserver(webserver) /\ netOk
                /\ ~shared.ok ->
                [dirs |-> newDirs, info |-> st.info,
                 wp |-> Put(st.wp, name, OwnTree(name)),
                 tree |-> Put(st.tree, name, {}),
                 db |-> Put(st.db, name, {}), drawn |-> st.drawn + 2,
                 networks |-> nets1, cfg |-> st.cfg,
                 port |-> instance_port, network |-> network_name,
                 netExisted |-> existed, exit |-> 1, why |-> "shared"]
          [] OTHER ->
                [dirs |-> newDirs,
                 info |-> Put(st.info, name,
                              [port |-> instance_port, network |-> network_name,
                               webserver |-> webserver,
                               mysql_version |-> mysql_version,
                               php_version |-> php_version,
                               mysql_image |-> mysql_image_version(mysql_version),
                               php_image |-> php_image_version(php_version),
                               db_password |-> db_password,
                               db_root_password |-> db_root_password,
                               published |-> instance_port]),
                 wp |-> Put(st.wp, name, OwnTree(name)),
                 tree |-> Put(st.tree, name, {}),
                 db |-> Put(st.db, name, {}), drawn |-> st.drawn + 2,
                 networks |-> nets2, cfg |-> saved.cfg,
                 port |-> instance_port, network |-> network_name,
                 netExisted |-> existed, exit |-> saved.exit,
                 why |-> IF saved.exit = 0 THEN "done" ELSE "save"]

\* the state create_instance runs on
Files == [env |-> env, cfgMode |-> cfgMode, cfg |-> cfg, dirs |-> dirs, info |-> info,
          wp |-> wp, tree |-> tree, db |-> db, drawn |-> drawn,
          networks |-> networks]

\* ------------------------------------------------------------------------
\* Initial state
\* ------------------------------------------------------------------------

\* A new workspace: no instance directory, no entry in the config (if there
\* is a config), a fresh engine.
Init ==
    /\ env = NoEnv
    /\ cfgMode \in ConfigModes
    /\ cfg = << >>
    /\ dirs = {}
    /\ info = << >>
    /\ wp = << >>
    /\ tree = << >>
    /\ db = << >>
    /\ drawn = 0
    /\ networks = {}
    /\ containers = [n \in Names |-> NoContainers]
    /\ last = NoOutcome
    /\ ncmd = 0
    /\ procs = NoProcs

\* ------------------------------------------------------------------------
\* Commands
\* ------------------------------------------------------------------------

\* one invocation of instance-manager.sh (the case statement of the main
\* script runs exactly one command)
Invoke == ncmd < MaxCommands /\ ncmd' = ncmd + 1

\* a command that stops before touching anything
Rejected(op, arg, why) ==
    /\ last' = Outcome(op, EmptyName, arg, EmptyName, 1, why, 0, NoNet, FALSE)
    /\ UNCHANGED <<procs, env, cfgMode, cfg, dirs, info, wp, tree, db, drawn, networks,
                   containers>>

\* instance-manager.sh create <name> [mysql_version] [php_version]
\* [webserver], an omitted argument being "": the create arm of the case
\* statement, create_instance "$2" "${3:-80}" "${4:-83}" "${5:-nginx}"
CreateArgs(name, mysql_arg, php_arg, webserver_arg) ==
    /\ Invoke
    /\ IF name = EmptyName
       THEN Rejected("create", "", "usage")
       ELSE LET r == create_instance(Files, name, OrDefault(mysql_arg, "80"),
                                     OrDefault(php_arg, "83"),
                                     OrDefault(webserver_arg, "nginx"))
            IN  /\ dirs' = r.dirs
                /\ info' = r.info
                /\ wp' = r.wp
                /\ tree' = r.tree
                /\ db' = r.db
                /\ drawn' = r.drawn
                /\ networks' = r.networks
                /\ cfg' = r.cfg
                /\ last' = IF r.why \in {"exists", "webserver"}
                           THEN Outcome("create", EmptyName, "", EmptyName, 1,
                                        r.why, 0, NoNet, FALSE)
                           ELSE Outcome("create", name, "", EmptyName, r.exit,
                                        r.why, r.port, r.network, r.netExisted)
                /\ UNCHANGED <<procs, env, cfgMode, containers>>

\* instance-manager.sh create <name> 80 83 <webserver>
Create(name, webserver) == CreateArgs(name, "80", "83", webserver)

\* instance-manager.sh start <name>; the outcome notes when docker-compose
\* found every container up to date
Start(name) ==
    /\ Invoke
    /\ CASE name = EmptyName -> Rejected("start", "", "usage")
      [] name # EmptyName /\ name \notin dirs ->
            Rejected("start", "", "missing")
      [] name \in dirs /\ name \notin DOMAIN info ->
            Rejected("start", "", "info")
      [] OTHER ->
            LET up == compose_up(containers, info, name)
            IN  /\ containers' = [containers EXCEPT ![name] = up.state]
                /\ last' = Outcome("start", name,
                                   IF containers[name] = AllRunning
                                   THEN "up-to-date" ELSE "",
                                   EmptyName, up.exit,
                                   IF up.exit = 0 THEN "done" ELSE "engine",
                                   0, NoNet, FALSE)
                /\ UNCHANGED <<procs, env, cfgMode, cfg, dirs, info, wp, tree, db, drawn,
                               networks>>

\* instance-manager.sh stop <name>; the outcome notes when docker-compose
\* found no running container
Stop(name) ==
    /\ Invoke
    /\ CASE name = EmptyName -> Rejected("stop", "", "usage")
      [] name # EmptyName /\ name \notin dirs ->
            Rejected("stop", "", "missing")
      [] name \in dirs /\ name \notin DOMAIN info ->
            Rejected("stop", "", "engine")
      [] OTHER ->
            /\ containers' = [containers EXCEPT ![name] = compose_stop(@)]
            /\ last' = Outcome("stop", name,
                               IF \E s \in Services : containers[name][s] = "running"
                               THEN "" ELSE "nothing to stop",
                               EmptyName, 0, "done", 0, NoNet, FALSE)
            /\ UNCHANGED <<procs, env, cfgMode, cfg, dirs, info, wp, tree, db, drawn,
                           networks>>

\* [ "$confirm" != "yes" ] is false, with any answer starting with y taken
\* as a confirmation
ConfirmedLoose(answer) == answer \in {"yes", "y"}

\* [ "$confirm" != "yes" ] is false
Confirmed(answer) == answer = "yes"

\* rm -rf "$instance_dir" that leaves the directory in place
KeepDir(d, name) == d

\* rm -rf "$instance_dir"
RemoveDir(d, name) == d \ {name}

\* instance-manager.sh remove <name>, with the answer typed at the prompt
\* and whether the engine carries out docker-compose down -v
Remove(name, answer, engineUp) ==
    /\ Invoke
    /\ CASE name = EmptyName -> Rejected("remove", answer, "usage")
      [] name # EmptyName /\ name \notin dirs ->
            Rejected("remove", answer, "missing")
      [] name \in dirs /\ answer = "EOF" ->
            /\ last' = Outcome("remove", name, answer, EmptyName, 1,
                               "noinput", 0, NoNet, FALSE)
            /\ UNCHANGED <<procs, env, cfgMode, cfg, dirs, info, wp, tree, db, drawn,
                           networks, containers>>
      [] name \in dirs /\ answer # "EOF" /\ ~Confirmed(answer) ->
            /\ last' = Outcome("remove", name, answer, EmptyName, 0,
                               "cancelled", 0, NoNet, FALSE)
            /\ UNCHANGED <<procs, env, cfgMode, cfg, dirs, info, wp, tree, db, drawn,
                           networks, containers>>
      [] name \in dirs /\ answer # "EOF" /\ Confirmed(answer)
           /\ (~engineUp \/ name \notin DOMAIN info) ->
            \* docker-compose down -v fails and set -e ends the script
            /\ last' = Outcome("remove", name, answer, EmptyName, 1,
                               "engine", 0, NoNet, FALSE)
            /\ UNCHANGED <<procs, env, cfgMode, cfg, dirs, info, wp, tree, db, drawn,
                           networks, containers>>
      [] OTHER ->
            LET removed == remove_instance_from_config(cfgMode, cfg, name)
            IN  /\ containers' = [containers EXCEPT ![name] = compose_down(@)]
                /\ dirs' = RemoveDir(dirs, name)
                /\ info' = Drop(info, name)
                /\ wp' = Drop(wp, name)
                /\ tree' = Drop(tree, name)
                /\ db' = Drop(db, name)
                /\ cfg' = removed.cfg
                /\ last' = Outcome("remove", name, answer, EmptyName, removed.exit,
                                   IF removed.exit = 0 THEN "done" ELSE "save",
                                   0, NoNet, FALSE)
                /\ UNCHANGED <<procs, env, cfgMode, drawn, networks>>

\* docker-compose start mysql: starts the mysql container if it exists
compose_start_mysql(c) ==
    [c EXCEPT !["mysql"] = IF @ = "stopped" THEN "running" ELSE @]

\* docker-compose start: starts the project's existing containers
compose_start(c) == [s \in Services |-> IF c[s] = "stopped" THEN "running" ELSE c[s]]

\* the strategy check of clone_instance, accepting every value
valid_strategy_any(strategy) == TRUE

\* [[ ! "$strategy" =~ ^(symlink|copy-all|copy-files)$ ]] is false
valid_strategy(strategy) == strategy \in Strategies

\* instance-manager.sh clone <source> <target> <strategy>; startEmptyOk is
\* whether this docker-compose accepts `start` for a project that has no
\* containers (some versions report an error and exit non-zero)
Clone(source_name, target_name, strategy) ==
    /\ Invoke
    /\ CASE source_name = EmptyName ->
                Rejected("clone", "", "usage")
         [] source_name # EmptyName /\ source_name \notin DOMAIN info ->
                Rejected("clone", "", "source")
         [] source_name \in DOMAIN info /\ DirExists(dirs, target_name) ->
                Rejected("clone", "", "target")
         [] source_name \in DOMAIN info /\ ~DirExists(dirs, target_name)
              /\ ~valid_strategy(strategy) ->
                Rejected("clone", "", "strategy")
         [] OTHER ->
            \E startEmptyOk \in BOOLEAN :
            LET r       == create_instance(Files, target_name,
                                           info[source_name].mysql_version,
                                           info[source_name].php_version,
                                           info[source_name].webserver)
                stopped == [containers EXCEPT ![target_name] = compose_stop(@)]
                hasNone == \A s \in Services : stopped[target_name][s] = "none"
                final   == IF hasNone /\ ~startEmptyOk THEN 1 ELSE 0
            IN  /\ dirs' = r.dirs
                /\ info' = r.info
                /\ networks' = r.networks
                /\ cfg' = r.cfg
                /\ db' = r.db
                /\ drawn' = r.drawn
                /\ UNCHANGED <<procs, env, cfgMode>>
                /\ CASE r.exit # 0 ->
                          /\ wp' = r.wp
                          /\ tree' = r.tree
                          /\ UNCHANGED containers
                          /\ last' = Outcome("clone", target_name, strategy,
                                             source_name, r.exit, r.why, r.port,
                                             r.network, r.netExisted)
                     [] r.exit = 0 /\ strategy = "symlink" ->
                          /\ wp' = SymlinkTree(r.wp, r.tree, source_name,
                                               target_name).wp
                          /\ tree' = SymlinkTree(r.wp, r.tree, source_name,
                                                 target_name).tree
                          /\ containers' =
                                [stopped EXCEPT ![target_name] = compose_start(@)]
                          /\ last' = Outcome("clone", target_name, strategy,
                                             source_name, final,
                                             IF final = 0 THEN "done" ELSE "engine",
                                             r.port, r.network, r.netExisted)
                     [] r.exit = 0 /\ strategy = "copy-files" ->
                          /\ wp' = Put(r.wp, target_name,
                                       CopyOf(r.wp, source_name, target_name))
                          /\ tree' = CopyFiles(r.wp, r.tree, source_name,
                                             target_name)
                          /\ containers' =
                                [stopped EXCEPT ![target_name] = compose_start(@)]
                          /\ last' = Outcome("clone", target_name, strategy,
                                             source_name, final,
                                             IF final = 0 THEN "done" ELSE "engine",
                                             r.port, r.network, r.netExisted)
                     [] r.exit = 0 /\ strategy = "copy-all" ->
                          \* the target's containers were never created, so
                          \* the import into ${target_name}-mysql cannot run
                          /\ wp' = Put(r.wp, target_name,
                                       CopyOf(r.wp, source_name, target_name))
                          /\ tree' = CopyFiles(r.wp, r.tree, source_name,
                                             target_name)
                          /\ containers' =
                                [stopped EXCEPT ![source_name] =
                                    IF stopped[source_name]["mysql"] = "none"
                                       /\ ~startEmptyOk
                                    THEN @ ELSE compose_start_mysql(@)]
                          /\ last' = Outcome("clone", target_name, strategy,
                                             source_name, 1, "database", r.port,
                                             r.network, r.netExisted)
                     [] OTHER ->
                          \* no arm of case "$strategy" matches
                          /\ wp' = r.wp
                          /\ tree' = r.tree
                          /\ containers' =
                                [stopped EXCEPT ![target_name] = compose_start(@)]
                          /\ last' = Outcome("clone", target_name, strategy,
                                             source_name, final,
                                             IF final = 0 THEN "done" ELSE "engine",
                                             r.port, r.network, r.netExisted)

Next ==
    \/ \E name \in NameArgs, webserver \in WebserverArgs : Create(name, webserver)
    \/ \E name \in NameArgs : Start(name)
    \/ \E name \in NameArgs : Stop(name)
    \/ \E name \in NameArgs, answer \in Answers, engineUp \in BOOLEAN :
          Remove(name, answer, engineUp)
    \/ \E source_name \in NameArgs, target_name \in NameArgs,
          strategy \in StrategyArgs :
          Clone(source_name, target_name, strategy)

Spec == Init /\ [][Next]_vars

\* ------------------------------------------------------------------------
\* get_next_port on arbitrary recorded ports
\* ------------------------------------------------------------------------

\* ports a workspace config may record, below, at and above the range
\* start, and the last port of the ranges the host container exposes and
\* the documentation names
ListedPorts == {7999, 8000, 8001, 8002, 8003, 8005, 8020, 8099}

RECURSIVE Listings(_)
\* the lists of at most k recorded ports, in every order
Listings(k) ==
    IF k = 0 THEN { << >> }
    ELSE LET shorter == Listings(k - 1)
         IN  shorter \cup {Append(l, p) : l \in shorter, p \in ListedPorts}

\* a workspace config whose instances record the ports of l, in that order
ConfigListing(l) ==
    [i \in 1..Len(l) |-> ConfigEntry(<<"i", i>>, l[i], "nginx")]

InitPorts ==
    /\ env = NoEnv
    /\ cfgMode \in {"plain", "readonly"}
    /\ cfg \in {ConfigListing(l) : l \in Listings(MaxListed)}
    /\ dirs = {}
    /\ info = << >>
    /\ wp = << >>
    /\ tree = << >>
    /\ db = << >>
    /\ drawn = 0
    /\ networks = {}
    /\ containers = [n \in Names |-> NoContainers]
    /\ last = NoOutcome
    /\ ncmd = 0
    /\ procs = NoProcs

\* local instance_port=$(get_next_port)
CallGetNextPort ==
    /\ last.op = "none"
    /\ last' = Outcome("get_next_port", EmptyName, "", EmptyName, 0, "done",
                       get_next_port(cfgMode, cfg), NoNet, FALSE)
    /\ UNCHANGED <<procs, env, cfgMode, cfg, dirs, info, wp, tree, db, drawn, networks,
                   containers, ncmd>>

NextPorts == CallGetNextPort

SpecPorts == InitPorts /\ [][NextPorts]_vars

\* ------------------------------------------------------------------------
\* Instances in use: files written under the trees, rows written to the
\* databases
\* ------------------------------------------------------------------------

\* files that get written under an instance's data/wordpress
FileNames == {"f"}

\* rows that get written to an instance's database
RowIds == {"r"}

\* a file is written at ${INSTANCES_DIR}/<name>/data/wordpress/<f> (the
\* directory is mounted at /var/www/html of the instance's containers): it
\* lands in the directory the path resolves to
WriteFile(name, f) ==
    /\ name \in DOMAIN wp
    /\ Backing(wp, name) \in DOMAIN tree
    /\ f \notin View(wp, tree, name)
    /\ tree' = [tree EXCEPT ![Backing(wp, name)] = @ \cup {f}]
    /\ UNCHANGED <<procs, env, cfgMode, cfg, dirs, info, wp, db, drawn, networks,
                   containers, last, ncmd>>

\* the instance's running mysql container stores a row under
\* ./data/mysql
InsertRow(name, r) ==
    /\ name \in DOMAIN db
    /\ containers[name]["mysql"] = "running"
    /\ r \notin db[name]
    /\ db' = [db EXCEPT ![name] = @ \cup {r}]
    /\ UNCHANGED <<procs, env, cfgMode, cfg, dirs, info, wp, tree, drawn, networks,
                   containers, last, ncmd>>

\* instances are created, started, cloned and used
NextData ==
    \/ \E name \in Names : Create(name, "nginx")
    \/ \E name \in Names : Start(name)
    \/ \E source_name \in Names, target_name \in Names, strategy \in Strategies :
          Clone(source_name, target_name, strategy)
    \/ \E name \in Names, f \in FileNames : WriteFile(name, f)
    \/ \E name \in Names, r \in RowIds : InsertRow(name, r)

SpecData == Init /\ [][NextData]_vars

\* ------------------------------------------------------------------------
\* The wp-dind command line: wp-dind instance <action> [args...]
\* ------------------------------------------------------------------------

\* the arms of the case statement of instance-manager.sh
ManagerActions ==
    {"create", "start", "stop", "remove", "list", "info", "clone", "logs"}

\* const validActions = [...] of the instance command
validActions == {"create", "start", "stop", "remove", "list", "info", "logs"}

\* container_name: of the instance's docker-compose.yml
ContainerName(name, webserver, s) ==
    name \o <<"-">> \o
       (CASE s = "mysql" -> <<"m", "y", "s", "q", "l">>
          [] s = "php" -> <<"p", "h", "p">>
          [] s = "web" /\ webserver = "nginx" -> <<"n", "g", "i", "n", "x">>
          [] OTHER -> <<"a", "p", "a", "c", "h", "e">>)

\* docker ps --format '{{.Names}}': the names of the running containers
docker_ps(ct, inf) ==
    {ContainerName(p[1], inf[p[1]].webserver, p[2]) :
        p \in {q \in ((DOMAIN inf) \cap (DOMAIN ct)) \X Services :
                  ct[q[1]][q[2]] = "running"}}

\* grep "^${NAME}-": the line starts with the regular expression NAME (a
\* dot stands for any character) followed by a dash
MatchesPrefix(NAME, line) ==
    /\ Len(line) > Len(NAME)
    /\ \A i \in 1..Len(NAME) : NAME[i] = "." \/ NAME[i] = line[i]
    /\ line[Len(NAME) + 1] = "-"

\* if docker ps --format '{{.Names}}' | grep -q "^${NAME}-": the status
\* that list and info print for the instance
reported_status(ct, inf, NAME) ==
    IF \E line \in docker_ps(ct, inf) : MatchesPrefix(NAME, line)
    THEN "running" ELSE "stopped"

\* a command that reads and reports only
Reported(op, exit, why) ==
    /\ last' = Outcome(op, EmptyName, "", EmptyName, exit, why, 0, NoNet, FALSE)
    /\ UNCHANGED <<procs, env, cfgMode, cfg, dirs, info, wp, tree, db, drawn, networks,
                   containers>>

\* a command that prints the status of instances: report is the status
\* printed for each
Listed(op, report) ==
    /\ last' = Outcome(op, EmptyName, "", EmptyName, 0, "done", 0, NoNet, FALSE)
                  @@ [report |-> report]
    /\ UNCHANGED <<procs, env, cfgMode, cfg, dirs, info, wp, tree, db, drawn, networks,
                   containers>>

\* instance-manager.sh list
List ==
    /\ Invoke
    /\ Listed("list", [NAME \in DOMAIN info |->
                          reported_status(containers, info, NAME)])

\* instance-manager.sh info <name>
Info(name) ==
    /\ Invoke
    /\ CASE name = EmptyName -> Reported("info", 1, "usage")
         [] name # EmptyName /\ name \notin DOMAIN info ->
               Reported("info", 1, "missing")
         [] OTHER ->
               Listed("info", [NAME \in {name} |->
                                  reported_status(containers, info, NAME)])

\* instance-manager.sh logs <name>
Logs(name) ==
    /\ Invoke
    /\ CASE name = EmptyName -> Reported("logs", 1, "usage")
         [] name # EmptyName /\ name \notin dirs ->
               Reported("logs", 1, "missing")
         [] name \in dirs /\ name \notin DOMAIN info ->
               Reported("logs", 1, "engine")
         [] OTHER -> Reported("logs", 0, "done")

\* the action handler of `wp-dind instance <action> [args...]`: forwarded
\* is the run of instance-manager.sh <action> <args> in the host container
wp_dind_instance(action, forwarded) ==
    IF action \notin validActions
    THEN /\ Invoke
         /\ last' = Outcome("wp-dind", EmptyName, action, EmptyName, 1,
                            "action", 0, NoNet, FALSE)
         /\ UNCHANGED <<procs, env, cfgMode, cfg, dirs, info, wp, tree, db, drawn,
                        networks, containers>>
    ELSE forwarded

\* the workspace as `wp-dind init` generates it: the older command line
\* mounts no workspace config into the host container, the newer one
\* mounts it read-only
InitCli ==
    /\ Init
    /\ cfgMode \in {"absent", "readonly"}

NextCli ==
    \/ \E name \in NameArgs, webserver \in WebserverArgs :
          wp_dind_instance("create", Create(name, webserver))
    \/ \E name \in NameArgs : wp_dind_instance("start", Start(name))
    \/ \E name \in NameArgs : wp_dind_instance("stop", Stop(name))
    \/ \E name \in NameArgs, answer \in Answers, engineUp \in BOOLEAN :
          wp_dind_instance("remove", Remove(name, answer, engineUp))
    \/ wp_dind_instance("list", List)
    \/ \E name \in NameArgs : wp_dind_instance("info", Info(name))
    \/ \E source_name \in NameArgs, target_name \in NameArgs,
          strategy \in StrategyArgs :
          wp_dind_instance("clone", Clone(source_name, target_name, strategy))
    \/ \E name \in NameArgs : wp_dind_instance("logs", Logs(name))

SpecCli == InitCli /\ [][NextCli]_vars

\* ------------------------------------------------------------------------
\* create with every choice of versions, web server and environment
\* ------------------------------------------------------------------------

\* mysql version codes on the command line: omitted, the codes of the
\* table, and codes outside it
MysqlVersionArgs == {"", "56", "57", "80", "55", "84", "8.0"}

\* php version codes on the command line: omitted, the codes of the table,
\* and codes outside it
PhpVersionArgs == {"", "74", "80", "81", "82", "83", "84", "7.4"}

\* environments of the host container: each default unset or set
Envs ==
    [DEFAULT_MYSQL_VERSION : {"", "57"}, DEFAULT_PHP_VERSION : {"", "74"},
     DEFAULT_WEBSERVER : {"", "apache"}, WORKSPACE_TYPE : {""}]

InitVersions ==
    /\ env \in Envs
    /\ cfgMode \in ConfigModes
    /\ cfg = << >>
    /\ dirs = {}
    /\ info = << >>
    /\ wp = << >>
    /\ tree = << >>
    /\ db = << >>
    /\ drawn = 0
    /\ networks = {}
    /\ containers = [n \in Names |-> NoContainers]
    /\ last = NoOutcome
    /\ ncmd = 0
    /\ procs = NoProcs

NextVersions ==
    \E mysql_arg \in MysqlVersionArgs, php_arg \in PhpVersionArgs,
       webserver_arg \in Webservers \cup {""} :
       CreateArgs(<<"a">>, mysql_arg, php_arg, webserver_arg)

SpecVersions == InitVersions /\ [][NextVersions]_vars

\* ------------------------------------------------------------------------
\* Status queries on instances whose names share a prefix
\* ------------------------------------------------------------------------

\* two instance names, one a prefix of the other up to a dash
PrefixNames == { <<"b">>, <<"b", "-", "1">> }

InitStatus ==
    /\ env = NoEnv
    /\ cfgMode \in ConfigModes
    /\ cfg = << >>
    /\ dirs = {}
    /\ info = << >>
    /\ wp = << >>
    /\ tree = << >>
    /\ db = << >>
    /\ drawn = 0
    /\ networks = {}
    /\ containers = [n \in PrefixNames |-> NoContainers]
    /\ last = NoOutcome
    /\ ncmd = 0
    /\ procs = NoProcs

NextStatus ==
    \/ \E name \in PrefixNames, webserver \in Webservers : Create(name, webserver)
    \/ \E name \in PrefixNames : Start(name)
    \/ \E name \in PrefixNames : Stop(name)
    \/ List
    \/ \E name \in PrefixNames : Info(name)

SpecStatus == InitStatus /\ [][NextStatus]_vars

\* ------------------------------------------------------------------------
\* DinD host container: entrypoint.sh and workspace-manager.sh
\* ------------------------------------------------------------------------

\* the instance names used with the host container
HostNames == { <<"a">>, <<"b", "-", "1">> }

\* the compose project of workspace mode (containers workspace-mysql,
\* workspace-php and workspace-nginx or workspace-apache)
Workspace == <<"workspace">>

\* NETWORK_NAME="wp-shared"
NETWORK_NAME == SharedNet.name

\* WORKSPACE_TYPE as the generated docker-compose.yml sets it; "" with a
\* CLI that does not set it
WorkspaceTypes == {"", "multi-instance", "workspace"}

\* the host container exists and is not running
HostDown == Outcome("host-stop", EmptyName, "", EmptyName, 0, "done", 0, NoNet, FALSE)

\* the host container is running: docker exec reaches the managers
HostUp == last.op # "host-stop"

\* is_workspace_mode: the workspace config is there and its workspaceType
\* is "workspace" (the mounted file is the wp-dind-workspace.json whose
\* workspaceType the generated compose file passes as WORKSPACE_TYPE)
is_workspace_mode(m, e) == m # "absent" /\ e.WORKSPACE_TYPE = "workspace"

\* generate_workspace_compose, publishing the first instance port
generate_workspace_compose_8001 ==
    [port |-> INSTANCE_PORT_START, networks |-> {NETWORK_NAME}]

\* generate_workspace_compose: the host port the web server publishes and
\* the networks of the three services
generate_workspace_compose ==
    [port |-> 8000, networks |-> {NETWORK_NAME}]

\* docker-compose -f "$COMPOSE_FILE" up -d
workspace_up(ct, inf, compose) ==
    IF PortBound(ct, inf, Workspace, compose.port)
    THEN [state |-> [s \in Services |->
                        IF s = "web"
                        THEN (IF ct[Workspace][s] = "running" THEN "running"
                              ELSE "stopped")
                        ELSE "running"],
          exit |-> IF ct[Workspace]["web"] = "running" THEN 0 ELSE 1]
    ELSE [state |-> AllRunning, exit |-> 0]

\* start_workspace on the engine with networks nets and containers ct: the
\* networks and containers it leaves, its exit status, and the port and
\* network of the compose file it rendered
start_workspace(m, e, nets, ct, inf) ==
    IF ~is_workspace_mode(m, e)
    THEN [networks |-> nets, containers |-> ct, exit |-> 0, why |-> "skipped",
          port |-> 0, network |-> NoNet]
    ELSE LET shared  == ensure_shared_network(nets)
             compose == generate_workspace_compose
             up      == workspace_up(ct, inf, compose)
         IN  IF ~shared.ok
             THEN [networks |-> shared.networks, containers |-> ct, exit |-> 1,
                   why |-> "shared", port |-> 0, network |-> NoNet]
             ELSE [networks |-> shared.networks,
                   containers |-> [ct EXCEPT ![Workspace] = up.state],
                   exit |-> up.exit,
                   why |-> IF up.exit = 0 THEN "done" ELSE "engine",
                   port |-> compose.port, network |-> NETWORK_NAME]

\* the host container stops: the Docker daemon and every container in it
\* end, none of them by docker stop
kill_containers(c) == [s \in Services |-> IF c[s] = "running" THEN "exited" ELSE c[s]]

\* restart: unless-stopped, when the Docker daemon starts on its kept
\* /var/lib/docker: the containers that were running when the daemon ended
\* run again, the ones stopped by docker-compose stop stay stopped
restart_unless_stopped(c) == [s \in Services |-> IF c[s] = "exited" THEN "running" ELSE c[s]]

\* docker stop of the host container
HostStop ==
    /\ Invoke
    /\ HostUp
    /\ containers' = [n \in DOMAIN containers |-> kill_containers(containers[n])]
    /\ last' = HostDown
    /\ UNCHANGED <<procs, env, cfgMode, cfg, dirs, info, wp, tree, db, drawn, networks>>

\* entrypoint.sh on the engine with networks nets and containers ct: it
\* waits for the Docker daemon, which restarts containers by their restart
\* policy, then starts the workspace if WORKSPACE_TYPE is "workspace" (a
\* failure to start it is a warning)
entrypoint(m, e, nets, ct, inf) ==
    LET restarted == [n \in DOMAIN ct |-> restart_unless_stopped(ct[n])]
    IN  IF e.WORKSPACE_TYPE = "workspace"
        THEN start_workspace(m, e, nets, restarted, inf)
        ELSE [networks |-> nets, containers |-> restarted, exit |-> 0,
              why |-> "skipped", port |-> 0, network |-> NoNet]

\* what the host container reports once entrypoint.sh has run
Started(boot) ==
    Outcome("host-start", EmptyName, "", EmptyName, 0, boot.why, boot.port,
            boot.network, FALSE)

\* docker start of the host container
HostStart ==
    /\ Invoke
    /\ ~HostUp
    /\ LET boot == entrypoint(cfgMode, env, networks, containers, info)
       IN  /\ containers' = boot.containers
           /\ networks' = boot.networks
           /\ last' = Started(boot)
    /\ UNCHANGED <<procs, env, cfgMode, cfg, dirs, info, wp, tree, db, drawn>>

\* workspace-manager.sh start
WorkspaceStart ==
    /\ Invoke
    /\ HostUp
    /\ LET ws == start_workspace(cfgMode, env, networks, containers, info)
       IN  /\ containers' = ws.containers
           /\ networks' = ws.networks
           /\ last' = Outcome("workspace-start", EmptyName, "", EmptyName,
                              ws.exit, ws.why, ws.port, ws.network, FALSE)
    /\ UNCHANGED <<procs, env, cfgMode, cfg, dirs, info, wp, tree, db, drawn>>

\* workspace-manager.sh stop: docker-compose down once a compose file has
\* been generated (the containers are there only if it has)
WorkspaceStop ==
    /\ Invoke
    /\ HostUp
    /\ containers' = [containers EXCEPT ![Workspace] = compose_down(@)]
    /\ last' = Outcome("workspace-stop", EmptyName, "", EmptyName, 0, "done",
                       0, NoNet, FALSE)
    /\ UNCHANGED <<procs, env, cfgMode, cfg, dirs, info, wp, tree, db, drawn, networks>>

\* A host container that wp-dind init has set up and wp-dind start has
\* started for the first time: WORKSPACE_TYPE comes with the read-only
\* config mount.
InitHost ==
    /\ env \in [DEFAULT_MYSQL_VERSION : {""}, DEFAULT_PHP_VERSION : {""},
                DEFAULT_WEBSERVER : {""}, WORKSPACE_TYPE : WorkspaceTypes]
    /\ cfgMode \in ConfigModes
    /\ (env.WORKSPACE_TYPE = "") = (cfgMode # "readonly")
    /\ cfg = << >>
    /\ dirs = {}
    /\ info = << >>
    /\ wp = << >>
    /\ tree = << >>
    /\ db = << >>
    /\ drawn = 0
    /\ LET boot == entrypoint(cfgMode, env, {},
                              [n \in HostNames \cup {Workspace} |-> NoContainers],
                              << >>)
       IN  /\ networks = boot.networks
           /\ containers = boot.containers
           /\ last = Started(boot)
    /\ ncmd = 0
    /\ procs = NoProcs

NextHost ==
    \/ HostStart
    \/ HostStop
    \/ WorkspaceStart
    \/ WorkspaceStop
    \/ \E name \in HostNames, webserver \in Webservers :
          HostUp /\ Create(name, webserver)
    \/ \E name \in HostNames : HostUp /\ Start(name)
    \/ \E name \in HostNames : HostUp /\ Stop(name)

SpecHost == InitHost /\ [][NextHost]_vars

\* ------------------------------------------------------------------------
\* Every command on two instances, across restarts of the host container
\* ------------------------------------------------------------------------

NextLife ==
    \/ HostStart
    \/ HostStop
    \/ \E name \in HostNames, webserver \in Webservers :
          HostUp /\ Create(name, webserver)
    \/ \E name \in HostNames : HostUp /\ Start(name)
    \/ \E name \in HostNames : HostUp /\ Stop(name)
    \/ \E name \in HostNames, answer \in {"yes", "no"}, engineUp \in BOOLEAN :
          HostUp /\ Remove(name, answer, engineUp)
    \/ \E source_name \in HostNames, target_name \in HostNames,
          strategy \in Strategies :
          HostUp /\ Clone(source_name, target_name, strategy)
    \/ HostUp /\ List
    \/ \E name \in HostNames : HostUp /\ Info(name)

SpecLife == InitHost /\ [][NextLife]_vars

\* ------------------------------------------------------------------------
\* Invocations of instance-manager.sh that run at the same time
\* ------------------------------------------------------------------------

\* two invocations
ProcIds == {1, 2}

\* an invocation of instance-manager.sh <op> <name> before its first step:
\* its position and its locals (instance_port, the ports get_next_port
\* read, network_name, the passwords, the temp_file of the config update)
Job(op, name) ==
    [op |-> op, name |-> name, pc |-> "begin", port |-> 0, ports |-> << >>,
     network |-> NoNet, drawn |-> 0, temp |-> << >>, exit |-> 0]

\* the invocation p moves to position pc with the locals of l replaced
Goto(p, pc, l) ==
    procs' = [procs EXCEPT ![p] =
                 [f \in DOMAIN @ |->
                     IF f = "pc" THEN pc ELSE IF f \in DOMAIN l THEN l[f] ELSE @[f]]]

\* the invocation p ends with the given exit status
Exit(p, status) == Goto(p, "done", [exit |-> status])

\* the jq filter of the invocation applied to the instances c:
\* '.instances[$name] = {...}' of create, 'del(.instances[$name])' of remove
jq(c, job) ==
    IF job.op = "create" THEN SetEntry(c, job.name, job.port, "nginx")
    ELSE DelEntry(c, job.name)

\* a mv that applies the filter again to the config as it is now
mv_merged(c, job) == jq(c, job)

\* mv "$temp_file" "$WORKSPACE_CONFIG": the config becomes the temp file
mv(c, job) == job.temp

\* create_instance, if [ -d "$instance_dir" ] to the openssl rand lines: the
\* directory check, the mkdir -p lines and the two passwords
CreateBegin(p) ==
    LET job == procs[p]
    IN  IF DirExists(dirs, job.name)
        THEN /\ Exit(p, 1)
             /\ UNCHANGED <<dirs, wp, tree, db, drawn>>
        ELSE /\ dirs' = dirs \cup {job.name}
             /\ wp' = Put(wp, job.name, OwnTree(job.name))
             /\ tree' = Put(tree, job.name, {})
             /\ db' = Put(db, job.name, {})
             /\ drawn' = drawn + 2
             /\ Goto(p, "port", [drawn |-> drawn])

\* a create that renders right after get_next_port, before the networks
CreatePortThenRender(p) ==
    Goto(p, "render",
         [port |-> get_next_port(cfgMode, cfg),
          ports |-> IF cfgMode # "absent" THEN ConfigPorts(cfg) ELSE << >>])

\* local instance_port=$(get_next_port)
CreatePort(p) ==
    Goto(p, "network",
         [port |-> get_next_port(cfgMode, cfg),
          ports |-> IF cfgMode # "absent" THEN ConfigPorts(cfg) ELSE << >>])

\* create_instance, instance_id to the wp-shared lines: the private network
\* and the shared network
CreateNetwork(p) ==
    LET id      == instance_id(dirs)
        existed == network_inspect(networks, NetName(id))
        netOk   == existed \/ network_create_ok(networks, InstanceNet(id))
        nets1   == IF existed THEN networks ELSE networks \cup {InstanceNet(id)}
        shared  == ensure_shared_network(nets1)
    IN  CASE ~netOk ->
                /\ Exit(p, 1)
                /\ UNCHANGED networks
          [] netOk /\ ~shared.ok ->
                /\ Exit(p, 1)
                /\ networks' = nets1
          [] OTHER ->
                /\ networks' = shared.networks
                /\ Goto(p, "render", [network |-> NetName(id)])

\* create_instance, the docker-compose.yml and .instance-info heredocs
CreateRender(p) ==
    LET job == procs[p]
    IN  /\ info' = Put(info, job.name,
                       [port |-> job.port, network |-> job.network,
                        webserver |-> "nginx", mysql_version |-> "80",
                        php_version |-> "83",
                        mysql_image |-> mysql_image_version("80"),
                        php_image |-> php_image_version("83"),
                        db_password |-> Password(job.drawn + 1),
                        db_root_password |-> Password(job.drawn + 2),
                        published |-> job.port])
        /\ Goto(p, "jq", << >>)

\* remove_instance, the directory check to rm -rf, with the answer yes
RemoveBegin(p) ==
    LET job == procs[p]
    IN  IF job.name \notin dirs \/ job.name \notin DOMAIN info
        THEN /\ Exit(p, 1)
             /\ UNCHANGED <<dirs, info, wp, tree, db, containers>>
        ELSE /\ containers' = [containers EXCEPT ![job.name] = compose_down(@)]
             /\ dirs' = RemoveDir(dirs, job.name)
             /\ info' = Drop(info, job.name)
             /\ wp' = Drop(wp, job.name)
             /\ tree' = Drop(tree, job.name)
             /\ db' = Drop(db, job.name)
             /\ Goto(p, "jq", << >>)

\* save_instance_to_config and remove_instance_from_config, the -f test and
\* jq ... "$WORKSPACE_CONFIG" > "$temp_file"
ConfigJq(p) ==
    LET job == procs[p]
    IN  IF cfgMode = "absent" THEN Exit(p, 0)
        ELSE Goto(p, "mv", [temp |-> jq(cfg, job)])

\* && mv "$temp_file" "$WORKSPACE_CONFIG"
ConfigMv(p) ==
    IF cfgMode = "readonly"
    THEN Exit(p, 1) /\ UNCHANGED cfg
    ELSE Exit(p, 0) /\ cfg' = mv(cfg, procs[p])

\* one step of the invocation p
Step(p) ==
    LET job == procs[p]
    IN  /\ UNCHANGED <<env, cfgMode, last, ncmd>>
        /\ CASE job.pc = "begin" /\ job.op = "create" ->
                  /\ CreateBegin(p)
                  /\ UNCHANGED <<cfg, info, networks, containers>>
             [] job.pc = "begin" /\ job.op = "remove" ->
                  /\ RemoveBegin(p)
                  /\ UNCHANGED <<cfg, drawn, networks>>
             [] job.pc = "port" ->
                  /\ CreatePort(p)
                  /\ UNCHANGED <<cfg, dirs, info, wp, tree, db, drawn, networks,
                                 containers>>
             [] job.pc = "network" ->
                  /\ CreateNetwork(p)
                  /\ UNCHANGED <<cfg, dirs, info, wp, tree, db, drawn, containers>>
             [] job.pc = "render" ->
                  /\ CreateRender(p)
                  /\ UNCHANGED <<cfg, dirs, wp, tree, db, drawn, networks,
                                 containers>>
             [] job.pc = "jq" ->
                  /\ ConfigJq(p)
                  /\ UNCHANGED <<cfg, dirs, info, wp, tree, db, drawn, networks,
                                 containers>>
             [] job.pc = "mv" ->
                  /\ ConfigMv(p)
                  /\ UNCHANGED <<dirs, info, wp, tree, db, drawn, networks,
                                 containers>>
             [] OTHER -> FALSE

\* A workspace that is empty or holds the instance x.y, and two
\* invocations started together: create a beside create b-1 or remove x.y.
InitRace ==
    /\ env = NoEnv
    /\ cfgMode \in ConfigModes
    /\ LET empty == [env |-> env, cfgMode |-> cfgMode, cfg |-> << >>, dirs |-> {},
                     info |-> << >>, wp |-> << >>, tree |-> << >>, db |-> << >>,
                     drawn |-> 0, networks |-> {}]
           first == create_instance(empty, DottedName, "80", "83", "nginx")
       IN  \E st \in {empty, first} :
              /\ cfg = st.cfg
              /\ dirs = st.dirs
              /\ info = st.info
              /\ wp = st.wp
              /\ tree = st.tree
              /\ db = st.db
              /\ drawn = st.drawn
              /\ networks = st.networks
    /\ containers = [n \in Names |-> NoContainers]
    /\ last = NoOutcome
    /\ ncmd = 0
    /\ procs \in {[p \in ProcIds |-> IF p = 1 THEN Job("create", <<"a">>) ELSE second] :
                     second \in {Job("create", <<"b", "-", "1">>),
                                 Job("remove", DottedName)}}

NextRace == \E p \in ProcIds : Step(p)

SpecRace == InitRace /\ [][NextRace]_vars

\* ------------------------------------------------------------------------
\* MySQL readiness polls: install-wordpress.sh and workspace-manager.sh
\* ------------------------------------------------------------------------

\* local max_attempts=30, sleep 2 (install_wordpress); timeout=60, sleep 1
\* (start_workspace)
PollLimit == [install |-> 30, workspace |-> 60]

PollSleep == [install |-> 2, workspace |-> 1]

\* the check from which on mysqladmin ping succeeds, 0 if it never does
ReadyAts == 0..(PollLimit.workspace + 1)

\* a poll before its first check: the loop counter, the checks made and
\* the seconds slept so far
Poll(kind, readyAt) ==
    [op |-> kind, pc |-> "poll", counter |-> 0, checks |-> 0, slept |-> 0,
     exit |-> 0, readyAt |-> readyAt]

\* docker exec ... mysqladmin ping succeeds at the k-th check
Ping(readyAt, k) == readyAt # 0 /\ k >= readyAt

\* [ $attempt -gt $max_attempts ]
ReachedGt(attempt, max_attempts) == attempt > max_attempts

\* [ $attempt -eq $max_attempts ]
Reached(attempt, max_attempts) == attempt = max_attempts

\* one pass through while [ $attempt -lt $max_attempts ] of
\* install_wordpress: the poll after it
install_poll(job) ==
    LET max_attempts == PollLimit.install
        attempt      == job.counter + 1
    IN  CASE ~(job.counter < max_attempts) ->
                [job EXCEPT !.pc = "done", !.exit = 0]
          [] job.counter < max_attempts /\ Ping(job.readyAt, job.checks + 1) ->
                [job EXCEPT !.pc = "done", !.exit = 0, !.checks = @ + 1]
          [] job.counter < max_attempts /\ ~Ping(job.readyAt, job.checks + 1)
               /\ Reached(attempt, max_attempts) ->
                [job EXCEPT !.pc = "done", !.exit = 1, !.checks = @ + 1,
                            !.counter = attempt]
          [] OTHER ->
                [job EXCEPT !.checks = @ + 1, !.counter = attempt,
                            !.slept = @ + PollSleep.install]

\* one pass through until docker exec workspace-mysql mysqladmin ping of
\* start_workspace: the poll after it
workspace_poll(job) ==
    LET timeout == PollLimit.workspace
        counter == job.counter + 1
    IN  CASE Ping(job.readyAt, job.checks + 1) ->
                [job EXCEPT !.pc = "done", !.exit = 0, !.checks = @ + 1]
          [] ~Ping(job.readyAt, job.checks + 1) /\ counter >= timeout ->
                [job EXCEPT !.pc = "done", !.exit = 1, !.checks = @ + 1,
                            !.counter = counter,
                            !.slept = @ + PollSleep.workspace]
          [] OTHER ->
                [job EXCEPT !.checks = @ + 1, !.counter = counter,
                            !.slept = @ + PollSleep.workspace]

\* the poll p makes one pass through its loop
PollStep(p) ==
    /\ procs[p].pc = "poll"
    /\ procs' = [procs EXCEPT ![p] = IF @.op = "install" THEN install_poll(@)
                                     ELSE workspace_poll(@)]
    /\ UNCHANGED <<env, cfgMode, cfg, dirs, info, wp, tree, db, drawn, networks,
                   containers, last, ncmd>>

\* One poll of either script, with MySQL ready from some check on or never.
InitPoll ==
    /\ env = NoEnv
    /\ cfgMode \in ConfigModes
    /\ cfg = << >>
    /\ dirs = {}
    /\ info = << >>
    /\ wp = << >>
    /\ tree = << >>
    /\ db = << >>
    /\ drawn = 0
    /\ networks = {}
    /\ containers = [n \in Names |-> NoContainers]
    /\ last = NoOutcome
    /\ ncmd = 0
    /\ procs \in {[p \in {1} |-> Poll(kind, readyAt)] :
                     kind \in {"install", "workspace"}, readyAt \in ReadyAts}

NextPoll == PollStep(1)

\* the shell keeps running the loop
SpecPoll == InitPoll /\ [][NextPoll]_vars /\ WF_vars(NextPoll)

\* ------------------------------------------------------------------------
\* An instance whose files are shared by symlink clones
\* ------------------------------------------------------------------------

\* the instance created directly; every other one is a clone
Original == <<"a">>

\* the original is created, started and used; instances are cloned with
\* the symlink strategy and removed
NextShare ==
    \/ Create(Original, "nginx")
    \/ \E name \in Names : Start(name)
    \/ \E source_name \in Names, target_name \in Names :
          Clone(source_name, target_name, "symlink")
    \/ \E name \in Names, engineUp \in BOOLEAN : Remove(name, "yes", engineUp)
    \/ \E name \in Names, f \in FileNames : WriteFile(name, f)
    \/ \E name \in Names, r \in RowIds : InsertRow(name, r)

SpecShare == Init /\ [][NextShare]_vars

\* ------------------------------------------------------------------------
\* Vocabulary of the properties
\* ------------------------------------------------------------------------

\* the instances that exist: those with a directory and a metadata file
Instances == DOMAIN info

\* everything a command can change: files, config and engine
world == <<env, cfgMode, cfg, dirs, info, wp, tree, db, drawn, networks,
           containers>>

\* the characters of [A-Za-z0-9_-]
NameChars ==
    {"a", "b", "c", "d", "e", "f", "g", "h", "i", "j", "k", "l", "m",
     "n", "o", "p", "q", "r", "s", "t", "u", "v", "w", "x", "y", "z",
     "A", "B", "C", "D", "E", "F", "G", "H", "I", "J", "K", "L", "M",
     "N", "O", "P", "Q", "R", "S", "T", "U", "V", "W", "X", "Y", "Z",
     "0", "1", "2", "3", "4", "5", "6", "7", "8", "9", "_", "-"}

\* name matches [A-Za-z0-9_-]+
MatchesNamePattern(name) ==
    Len(name) > 0 /\ \A i \in 1..Len(name) : name[i] \in NameChars

\* the last command created an instance (create, or the create step of
\* clone, got as far as writing the metadata file)
Created == last.op \in {"create", "clone"} /\ last.name \in Instances

\* the ports recorded in the workspace config
RecordedPorts == {cfg[i].port : i \in 1..Len(cfg)}

\* ------------------------------------------------------------------------
\* C1. Port uniqueness: no two existing instances have the same host port,
\* whatever the starting condition of the workspace, a missing workspace
\* config file included.
\* ------------------------------------------------------------------------
C1_PortUniqueness ==
    \A a \in Instances, b \in Instances :
        a # b => info[a].port # info[b].port

\* ------------------------------------------------------------------------
\* C2. Append-only port allocation: a create that succeeds assigns a port
\* that is at least 8001 and greater than the port of every other existing
\* instance, and in a workspace where nothing was removed the N-th create
\* gets 8001 + (N - 1).
\* ------------------------------------------------------------------------
C2_AppendOnlyPorts ==
    (Created /\ last.exit = 0) =>
        /\ last.port >= INSTANCE_PORT_START
        /\ info[last.name].port = last.port
        /\ \A o \in Instances \ {last.name} : info[o].port < last.port
        /\ (ncmd = Cardinality(dirs) => last.port = INSTANCE_PORT_START + ncmd - 1)

\* ------------------------------------------------------------------------
\* C3. get_next_port returns the smallest integer that is >= 8001 and
\* strictly greater than every port recorded in the workspace config, for
\* every list of recorded ports in every order.
\* ------------------------------------------------------------------------
C3_NextPortIsLeastAbove ==
    last.op = "get_next_port" =>
        /\ last.port >= INSTANCE_PORT_START
        /\ \A p \in RecordedPorts : last.port > p
        /\ \A q \in INSTANCE_PORT_START..(last.port - 1) :
              \E p \in RecordedPorts : p >= q

\* get_next_port has run on three recorded ports listed out of order, one
\* of them below the range start
C3_Witness ==
    /\ last.op = "get_next_port"
    /\ Len(cfg) = 3
    /\ cfg[1].port > cfg[2].port
    /\ cfg[3].port < INSTANCE_PORT_START
    /\ last.port = cfg[1].port + 1

\* ------------------------------------------------------------------------
\* C4. Network distinctness: any two live instances have different private
\* network names (and so different subnets).
\* ------------------------------------------------------------------------
C4_NetworkDistinct ==
    \A a \in Instances, b \in Instances :
        a # b => info[a].network # info[b].network

\* ------------------------------------------------------------------------
\* C5. create never gives a new instance a private network that existed in
\* the engine before that create: when the computed network name is already
\* taken the create fails and no instance is made with that network.
\* ------------------------------------------------------------------------
C5_ExistingNetworkIsHardFailure ==
    (last.op \in {"create", "clone"} /\ last.netExisted) =>
        (last.exit # 0 /\ last.name \notin Instances)

\* ------------------------------------------------------------------------
\* C6. With no removal in between, the N-th instance created in a fresh
\* workspace gets network wp-network-N with subnet 172.20.N.0/24.
\* ------------------------------------------------------------------------
C6_NthInstanceGetsNetworkN ==
    (Created /\ ncmd = Cardinality(dirs)) =>
        /\ info[last.name].network = NetName(ncmd)
        /\ InstanceNet(ncmd) \in networks

\* ------------------------------------------------------------------------
\* C7. Rejection without side effects: create with a name that already
\* exists, or with a webserver other than nginx or apache, exits non-zero
\* and leaves the workspace config, every instance directory, the engine's
\* networks and containers exactly as they were.
\* ------------------------------------------------------------------------
C7_RejectionWithoutSideEffects ==
    [][last'.op = "create" =>
          \A name \in Names, webserver \in WebserverArgs :
             (Create(name, webserver) /\ (name \in dirs \/ webserver \notin Webservers))
                 => (last'.exit # 0 /\ UNCHANGED world)]_vars

\* a create was rejected as a duplicate while instances exist
C7_Witness ==
    /\ last.op = "create"
    /\ last.why = "exists"
    /\ last.exit = 1
    /\ Instances # {}

\* ------------------------------------------------------------------------
\* C8. An instance name that does not match [A-Za-z0-9_-]+ is rejected
\* before any side effect: no directory, metadata, or config entry is ever
\* made for such a name.
\* ------------------------------------------------------------------------
C8_OnlyPatternNamesExist ==
    /\ \A name \in dirs : MatchesNamePattern(name)
    /\ \A name \in ConfigNames(cfg) : MatchesNamePattern(name)

\* ------------------------------------------------------------------------
\* C9. Remove cleans up: after a confirmed remove(name) that ran to
\* completion the workspace config has no entry for name, the instance's
\* directory tree and metadata are gone, its containers are gone, and a
\* create(name, ...) issued next succeeds.
\* ------------------------------------------------------------------------
C9_Removed == last.op = "remove" /\ last.arg = "yes" /\ last.exit = 0

C9_RemoveCleansUp ==
    [][/\ C9_Removed' =>
             /\ last'.name \notin dirs'
             /\ last'.name \notin DOMAIN info'
             /\ last'.name \notin DOMAIN wp'
             /\ last'.name \notin ConfigNames(cfg')
             /\ containers'[last'.name] = NoContainers
       /\ C9_Removed =>
             \A webserver \in Webservers :
                Create(last.name, webserver)
                   => /\ last'.exit = 0
                      /\ last.name \in dirs'
                      /\ last.name \in DOMAIN info'
                      /\ (cfgMode = "plain" => last.name \in ConfigNames(cfg'))]_vars

\* a running instance was just removed from a workspace that keeps a
\* config, and another instance remains
C9_Witness ==
    /\ C9_Removed
    /\ cfgMode = "plain"
    /\ Len(cfg) = 1
    /\ Instances # {}
    /\ last.name \notin dirs

\* ------------------------------------------------------------------------
\* C10. remove(name) has an effect only after explicit confirmation: unless
\* the answer is exactly "yes", nothing changes - containers, volumes,
\* directory tree and config entry stay - also when no confirmation input
\* is available.
\* ------------------------------------------------------------------------
C10_NoEffectWithoutYes ==
    [][last'.op = "remove" =>
          \A name \in NameArgs, answer \in Answers \ {"yes"}, engineUp \in BOOLEAN :
             Remove(name, answer, engineUp) => UNCHANGED world]_vars

\* remove of a running instance was answered by end of input and the
\* instance is still there and running
C10_Witness ==
    /\ last.op = "remove"
    /\ last.arg = "EOF"
    /\ last.name \in Instances
    /\ containers[last.name] = AllRunning

\* ------------------------------------------------------------------------
\* Removal when the teardown fails
\* ------------------------------------------------------------------------

\* C11: when the teardown step of a confirmed remove fails (docker-compose
\* down -v exits non-zero), the removal still deletes the instance's
\* directory tree and its config entry, and the failure is reported.
C11_TeardownFailureDoesNotBlockCleanup ==
    (last.op = "remove" /\ Confirmed(last.arg) /\ last.why = "engine")
        => /\ last.exit # 0
           /\ last.name \notin dirs
           /\ last.name \notin ConfigNames(cfg)

\* ------------------------------------------------------------------------
\* Clone: independence of the target
\* ------------------------------------------------------------------------

\* a clone command that ran to its end and exited 0
CloneCompleted == last.op = "clone" /\ last.exit = 0

\* C12: after clone(A, B, strategy) completes, for each of the three
\* strategies, B's host port differs from A's and B's database credentials
\* differ from A's.
C12_CloneHasOwnPortAndCredentials ==
    CloneCompleted =>
        /\ info[last.name].port # info[last.src].port
        /\ info[last.name].db_password # info[last.src].db_password
        /\ info[last.name].db_root_password # info[last.src].db_root_password

\* C13: from every reachable state in which A exists and B does not, for
\* each of the three strategies, after clone(A, B, strategy) the private
\* network of B differs from the private network of A.
C13_CloneHasOwnNetwork ==
    CloneCompleted => info[last.name].network # info[last.src].network

\* ------------------------------------------------------------------------
\* Clone: what each strategy gives the target
\* ------------------------------------------------------------------------

\* the last command was a clone that got as far as applying its strategy
StrategyApplied(strategy) ==
    /\ last.op = "clone"
    /\ last.arg = strategy
    /\ last.why \in {"done", "engine", "database"}

\* the step is one run of instance-manager.sh
CommandStep == ncmd' # ncmd

C15_CopyAllCopiesTheDatabase ==
    [][(CommandStep /\ StrategyApplied("copy-all")') =>
          /\ last'.exit = 0
          /\ db[last'.src] \subseteq db'[last'.name]]_vars

\* C16: the copy-all and copy-files strategies give the target its own copy
\* of the files, whatever way the source was itself created: a file written
\* afterwards under the target's tree does not change what is seen under
\* the tree of the source or of any other instance, and a file written
\* under another instance's tree does not change what is seen under the
\* target's.
C16_CopiedFilesAreIndependent ==
    [][(StrategyApplied("copy-all") \/ StrategyApplied("copy-files")) =>
          \A name \in Names, f \in FileNames :
             WriteFile(name, f) =>
                IF name = last.name
                THEN \A other \in Instances \ {last.name} :
                        View(wp', tree', other) = View(wp, tree, other)
                ELSE View(wp', tree', last.name) = View(wp, tree, last.name)]_vars

\* C17: clone with copy-files leaves the target's database fresh and empty,
\* while the files under the target's tree equal the files under the
\* source's tree at clone time.
C17_CopyFilesCopiesFilesOnly ==
    [][(CommandStep /\ StrategyApplied("copy-files")') =>
          /\ db'[last'.name] = {}
          /\ View(wp', tree', last'.name) = View(wp, tree, last'.src)
          /\ View(wp', tree', last'.src) = View(wp, tree, last'.src)]_vars

\* a copy-files clone of a source that holds files and rows exited 0: the
\* target has a directory of its own with the source's files, no rows, and
\* no containers yet
C17_Witness ==
    /\ StrategyApplied("copy-files")
    /\ last.exit = 0
    /\ wp[last.name] = OwnTree(last.name)
    /\ tree[last.name] = FileNames
    /\ tree[last.src] = FileNames
    /\ db[last.src] = RowIds
    /\ db[last.name] = {}
    /\ containers[last.name] = NoContainers

\* ------------------------------------------------------------------------
\* Clone: rejection
\* ------------------------------------------------------------------------

\* C18: clone is rejected before any side effect when the source instance
\* does not exist, when the target already exists, or when the strategy is
\* not one of symlink, copy-all, copy-files: it exits non-zero, creates no
\* directory, network or config entry, and changes no existing instance.
\* (A clone command whose source exists, whose target does not and whose
\* strategy is recognised is the only one that may exit 0 or change
\* anything.)
C18_CloneRejectedWithoutSideEffects ==
    [][(CommandStep /\ last'.op = "clone") =>
          \/ /\ last'.src \in Instances
             /\ last'.name \in Names \ dirs
             /\ last'.arg \in Strategies
          \/ /\ last'.exit # 0
             /\ UNCHANGED world]_vars

\* a clone of an existing instance to a free name was refused for its
\* strategy, with instances and networks in place
C18_Witness ==
    /\ last.op = "clone"
    /\ last.why = "strategy"
    /\ last.exit = 1
    /\ Instances # {}
    /\ Names \ dirs # {}
    /\ networks # {}

\* ------------------------------------------------------------------------
\* The wp-dind command line
\* ------------------------------------------------------------------------

\* C19: `wp-dind instance <action>` accepts and forwards every lifecycle
\* action of the instance manager: create, start, stop, remove, list, info,
\* clone and logs; it refuses none of them as an invalid action.
C19_CliForwardsEveryLifecycleAction ==
    ~(/\ last.op = "wp-dind"
      /\ last.why = "action"
      /\ last.arg \in ManagerActions)

\* ------------------------------------------------------------------------
\* Create: the port recorded in the workspace config
\* ------------------------------------------------------------------------

\* C20: after create(name) exits successfully, the workspace config
\* contains instances[name] with a port that is not null and equals both
\* the PORT of the instance's metadata and the host port its descriptor
\* publishes - with the workspace config brought into the host container
\* the way the generated compose file does it.
C20_CreateRecordsItsPort ==
    (last.op = "create" /\ last.exit = 0) =>
        \E i \in 1..Len(cfg) :
            /\ cfg[i].name = last.name
            /\ cfg[i].port \in Nat \ {0}
            /\ cfg[i].port = info[last.name].port
            /\ cfg[i].port = info[last.name].published

\* ------------------------------------------------------------------------
\* Create: the instance's containers
\* ------------------------------------------------------------------------

\* C21: after create(name) completes, the instance's containers (for
\* example <name>-php) are running and accept commands, without a
\* start(name) in between.
C21_CreatedInstanceIsRunning ==
    (last.op = "create" /\ last.exit = 0) =>
        \A s \in Services : containers[last.name][s] = "running"

\* ------------------------------------------------------------------------
\* Isolation of instances
\* ------------------------------------------------------------------------

\* some container of the instance is running
HasRunning(ct, name) == \E s \in Services : ct[name][s] = "running"

\* C22: instances are isolated from each other by default: in every
\* reachable state no running container of one instance is attached to a
\* network that a running container of a different instance is attached to.
C22_InstancesAreIsolated ==
    \A a \in Instances, b \in Instances :
        (a # b /\ HasRunning(containers, a) /\ HasRunning(containers, b))
            => service_networks(info, a) \cap service_networks(info, b) = {}

\* ------------------------------------------------------------------------
\* Create: versions and defaults
\* ------------------------------------------------------------------------

\* the lookup table of mysql images
MysqlImages == ("56" :> "5.6.51" @@ "57" :> "5.7.44" @@ "80" :> "8.0.40")

\* the lookup table of php images
PhpImages ==
    ("74" :> "7.4.33" @@ "80" :> "8.0.30" @@ "81" :> "8.1.31" @@
     "82" :> "8.2.26" @@ "83" :> "8.3.14")

\* C23: unknown version codes fall back silently: a create with a mysql or
\* php version code outside the lookup table ends as the same create with
\* the newest codes does (it succeeds where that one succeeds) and renders
\* the newest supported image (mysql 8.0.40, php 8.3.14); every code inside
\* the table renders its listed image version.
C23_VersionCodesMapOrFallBack ==
    [][(CommandStep /\ last'.op = "create" /\ last'.name \in DOMAIN info') =>
          LET i == info'[last'.name]
              newest == create_instance(Files, last'.name, "80", "83", i.webserver)
          IN  /\ last'.exit = newest.exit
              /\ i.mysql_image = IF i.mysql_version \in DOMAIN MysqlImages
                                 THEN MysqlImages[i.mysql_version] ELSE "8.0.40"
              /\ i.php_image = IF i.php_version \in DOMAIN PhpImages
                               THEN PhpImages[i.php_version] ELSE "8.3.14"]_vars

\* a create with a mysql code and a php code outside the tables exited 0 and
\* rendered the newest images
C23_Witness ==
    /\ last.op = "create"
    /\ last.exit = 0
    /\ info[last.name].mysql_version \notin DOMAIN MysqlImages
    /\ info[last.name].php_version \notin DOMAIN PhpImages
    /\ info[last.name].mysql_image = "8.0.40"
    /\ info[last.name].php_image = "8.3.14"

\* C24: when create is invoked through the manager's command line with the
\* mysql version, php version or webserver argument omitted, the new
\* instance uses DEFAULT_MYSQL_VERSION, DEFAULT_PHP_VERSION and
\* DEFAULT_WEBSERVER from the environment, and 80, 83 and nginx only when
\* the corresponding variable is unset.
C24_OmittedArgumentsUseEnvironmentDefaults ==
    [][last'.op = "create" =>
          \A name \in Names, mysql_arg \in MysqlVersionArgs,
             php_arg \in PhpVersionArgs, webserver_arg \in Webservers \cup {""} :
             (/\ CreateArgs(name, mysql_arg, php_arg, webserver_arg)
              /\ name \in DOMAIN info') =>
                 /\ mysql_arg = "" =>
                       info'[name].mysql_version = DEFAULT_MYSQL_VERSION(env)
                 /\ php_arg = "" =>
                       info'[name].php_version = DEFAULT_PHP_VERSION(env)
                 /\ webserver_arg = "" =>
                       info'[name].webserver = DEFAULT_WEBSERVER(env)]_vars

\* ------------------------------------------------------------------------
\* Status of an instance
\* ------------------------------------------------------------------------

\* the status field of the instance's entry in the workspace config
PersistedStatus(c, name) ==
    c[CHOOSE i \in 1..Len(c) : c[i].name = name].status

\* C25: start(name) and stop(name) mutate the status field of the
\* instance's entry in the workspace config: after a successful start the
\* persisted status says running, after a successful stop it says stopped.
C25_StartStopUpdatePersistedStatus ==
    (last.op \in {"start", "stop"} /\ last.exit = 0
        /\ last.name \in ConfigNames(cfg)) =>
        PersistedStatus(cfg, last.name) =
            (IF last.op = "start" THEN "running" ELSE "stopped")

\* C26: list and info derive the status at query time from the live engine
\* state only: an instance is reported running if and only if at least one
\* container of that same instance is running; neither the persisted
\* status nor the containers of other instances, whatever their names,
\* affect the result.
C26_ReportedStatusIsOwnLiveState ==
    (last.op \in {"list", "info"} /\ last.exit = 0) =>
        \A NAME \in DOMAIN last.report :
            last.report[NAME] = "running" <=> HasRunning(containers, NAME)

\* ------------------------------------------------------------------------
\* Start and stop
\* ------------------------------------------------------------------------

C28_AutoStartOnlyInWorkspaceMode ==
    last.op = "host-start" =>
        IF env.WORKSPACE_TYPE = "workspace"
        THEN containers[Workspace] = AllRunning
        ELSE \A name \in Instances : ~HasRunning(containers, name)

\* C29: in workspace mode the implicit instance, whenever it is started,
\* publishes host port 8000 on the shared network, and starting it draws
\* nothing from the port allocator or the network allocator (no config
\* entry, no instance metadata, no private network appears); no instance
\* of instance-manager.sh ever has port 8000.
C29_WorkspaceIsPinnedToPort8000 ==
    [][/\ (last'.op \in {"host-start", "workspace-start"}
             /\ is_workspace_mode(cfgMode, env)) =>
             /\ last'.port = 8000
             /\ last'.network = SharedNet.name
             /\ HasRunning(containers', Workspace)
             /\ cfg' = cfg /\ info' = info /\ dirs' = dirs
             /\ networks' \subseteq networks \cup {SharedNet}
       /\ \A name \in DOMAIN info' :
             info'[name].port # 8000 /\ info'[name].published # 8000
       /\ \A i \in 1..Len(cfg') : cfg'[i].port # 8000]_vars

\* the host container has restarted in workspace mode beside an instance
\* of instance-manager.sh, and the workspace runs on port 8000
C29_Witness ==
    /\ last.op = "host-start"
    /\ ncmd > 0
    /\ last.port = 8000
    /\ containers[Workspace] = AllRunning
    /\ \E name \in Instances : info[name].port = INSTANCE_PORT_START

\* the ports the generated docker-compose.yml of the host container
\* publishes for instances: "8001-8020:8001-8020"
ExposedInstancePorts == 8001..8020

\* C30: every port get_next_port assigns lies in the range of ports the
\* DinD host container exposes for instances, 8001-8020, however many
\* instances the config already records.
C30_AssignedPortsAreExposed ==
    last.op = "get_next_port" => last.port \in ExposedInstancePorts

\* ------------------------------------------------------------------------
\* The shared network
\* ------------------------------------------------------------------------

\* the networks of the engine that are named wp-shared
SharedNetworks(nets) == {n \in nets : n.name = SharedNet.name}

\* a command that reaches the step that ensures the shared network: a
\* create that got its private network, or a start of the workspace in
\* workspace mode
EnsuresShared ==
    \/ last'.op = "create" /\ last'.why \in {"done", "save", "shared"}
    \/ last'.op \in {"host-start", "workspace-start"}
          /\ is_workspace_mode(cfgMode, env)

ConfigPortOf(c, name) == c[CHOOSE i \in 1..Len(c) : c[i].name = name].port

\* C32: the port of an instance is assigned once and never changes: for
\* an instance that exists before and after a command (start, stop, list,
\* info, a stop or start of the host container, a clone from it, a create,
\* remove or clone of another instance), the port in its metadata file,
\* the port its descriptor publishes and the port of its workspace config
\* entry are the same after the command as before.
C32_PortIsImmutable ==
    [][\A name \in (DOMAIN info) \cap (DOMAIN info') :
          /\ info'[name].port = info[name].port
          /\ info'[name].published = info[name].published
          /\ (name \in ConfigNames(cfg) /\ name \in ConfigNames(cfg')) =>
                ConfigPortOf(cfg', name) = ConfigPortOf(cfg, name)
          /\ name \in ConfigNames(cfg) => name \in ConfigNames(cfg')]_vars

\* an instance recorded in the config was cloned, and kept its port while
\* the clone got the next one
C32_Witness ==
    /\ last.op = "clone"
    /\ last.exit = 0
    /\ last.src \in Instances
    /\ last.src \in ConfigNames(cfg)
    /\ ConfigPortOf(cfg, last.src) = INSTANCE_PORT_START
    /\ last.name \in ConfigNames(cfg)
    /\ ConfigPortOf(cfg, last.name) = INSTANCE_PORT_START + 1

\* ------------------------------------------------------------------------
\* Concurrent invocations
\* ------------------------------------------------------------------------

\* the ports of the sequence l
PortsIn(l) == {l[i] : i \in 1..Len(l)}

\* the invocations that are a create whose instance has been rendered
RenderedCreates ==
    {p \in DOMAIN procs : procs[p].op = "create" /\ procs[p].pc \in {"jq", "mv", "done"}
                             /\ procs[p].exit = 0}

\* C33: nothing keeps two concurrent creates apart: each writes to its
\* instance the port it read, and two creates have the same port exactly
\* when neither read a config that already recorded the other's port, that
\* is, when both read the next port before either wrote its entry; so a
\* state with two instances on one port is reachable.
C33_ConcurrentCreatesCollide ==
    \A p \in RenderedCreates, q \in RenderedCreates :
        p # q =>
            /\ procs[p].name \in DOMAIN info
            /\ info[procs[p].name].port = procs[p].port
            /\ (procs[p].port = procs[q].port) <=>
                  (/\ procs[q].port \notin PortsIn(procs[p].ports)
                   /\ procs[p].port \notin PortsIn(procs[q].ports))

\* both creates ran against a writable config, both exited 0, and the two
\* instances exist with the same port
C33_Witness ==
    /\ cfgMode = "plain"
    /\ RenderedCreates = ProcIds
    /\ \A p \in ProcIds : procs[p].pc = "done" /\ procs[p].exit = 0
    /\ \A p \in ProcIds : procs[p].name \in Instances
    /\ info[procs[1].name].port = info[procs[2].name].port

\* the update of job is in the instances c
Reflected(c, job) ==
    IF job.op = "create" THEN job.name \in ConfigNames(c)
    ELSE job.name \notin ConfigNames(c)

\* both invocations have updated a writable config and exited 0
BothUpdated ==
    /\ cfgMode = "plain"
    /\ DOMAIN procs = ProcIds
    /\ \A p \in ProcIds : procs[p].pc = "done" /\ procs[p].exit = 0

\* C34: the config update is an unlocked read-modify-write: after two
\* concurrent mutating commands have both exited 0, the config is the temp
\* file of one of them, and the update of the other is in it only if that
\* temp file was made after the other's mv; so a state where one of the two
\* updates is lost is reachable.
C34_LastWriterWins ==
    BothUpdated =>
        /\ \E p \in ProcIds : cfg = procs[p].temp
        /\ \A q \in ProcIds :
              ~Reflected(cfg, procs[q]) =>
                  \E p \in ProcIds \ {q} :
                      cfg = procs[p].temp /\ ~Reflected(procs[p].temp, procs[q])

\* two creates have both exited 0, both instances exist, and the config
\* records only one of them
C34_Witness ==
    /\ BothUpdated
    /\ \A p \in ProcIds : procs[p].op = "create" /\ procs[p].name \in Instances
    /\ \E q \in ProcIds : ~Reflected(cfg, procs[q])
    /\ \E p \in ProcIds : Reflected(cfg, procs[p])

\* ------------------------------------------------------------------------
\* Life cycle of an instance
\* ------------------------------------------------------------------------

\* the state of the instance name: absent, running (a container of it
\* runs) or idle (created or stopped, which differ only in history)
LifeState(inf, ct, name) ==
    CASE name \notin DOMAIN inf -> "absent"
      [] name \in DOMAIN inf /\ HasRunning(ct, name) -> "running"
      [] OTHER -> "idle"

\* C35: every state change of an instance is an edge of absent -> created
\* -> running <-> stopped -> absent: create or clone takes an absent name
\* to created with its containers existing and not running, start takes
\* created or stopped to running, stop takes running to stopped, remove
\* takes a stopped instance to absent, and no command changes the state
\* of an instance in any other way.
C35_LifeCycleEdgesOnly ==
    [][\A name \in Names :
          LET before == LifeState(info, containers, name)
              after  == LifeState(info', containers', name)
          IN  /\ (before = "absent" /\ after # "absent") =>
                    /\ last'.op \in {"create", "clone"}
                    /\ last'.name = name
                    /\ \A s \in Services : containers'[name][s] = "stopped"
              /\ (before = "idle" /\ after = "running") =>
                    (last'.op = "start" /\ last'.name = name)
              /\ (before = "running" /\ after = "idle") =>
                    (last'.op = "stop" /\ last'.name = name)
              /\ (before # "absent" /\ after = "absent") =>
                    (last'.op = "remove" /\ last'.name = name /\ before = "idle")]_vars

\* C36: clone creates the target, stops it, applies the strategy and
\* starts it again, and for every strategy a clone of an existing source to
\* a free target name exits 0 and leaves every container of the target
\* running.
C36_CloneLeavesTargetRunning ==
    (last.op = "clone" /\ last.name # EmptyName /\ last.arg \in Strategies) =>
        /\ last.exit = 0
        /\ last.name \in Instances
        /\ containers[last.name] = AllRunning

\* ------------------------------------------------------------------------
\* Order of the steps of create
\* ------------------------------------------------------------------------

\* the invocations that are a create
Creates == {p \in DOMAIN procs : procs[p].op = "create"}

EndedPolls == {p \in DOMAIN procs : procs[p].op \in DOMAIN PollLimit /\ procs[p].pc = "done"}

\* what holds of a poll at every moment: it has made at most 30 (install)
\* or 60 (workspace start) checks, 2 s or 1 s apart; it ends with 0 exactly
\* at the first check that passes, and with a non-zero status after the
\* last check when none passed
PollIsBounded ==
    \A p \in DOMAIN procs :
        procs[p].op \in DOMAIN PollLimit =>
            LET job   == procs[p]
                limit == PollLimit[job.op]
            IN  /\ job.checks <= limit
                /\ job.slept <= PollSleep[job.op] * limit
                /\ (job.pc = "done" /\ job.exit = 0) =>
                      (job.readyAt # 0 /\ job.checks = job.readyAt)
                /\ (job.pc = "done" /\ job.exit # 0) =>
                      (job.checks = limit /\ ~Ping(job.readyAt, limit))
                /\ job.pc # "done" => ~Ping(job.readyAt, job.checks)

\* C38: the MySQL readiness poll always terminates: it makes at most 30
\* checks 2 s apart (install-wordpress) or 60 checks 1 s apart (workspace
\* start), ends with success as soon as one check passes, and ends with a
\* non-zero return when no check passes.
C38_ReadinessPollTerminates ==
    /\ []PollIsBounded
    /\ <>(EndedPolls = DOMAIN procs)

\* the poll of install-wordpress has given up after thirty failed checks
C38_Witness ==
    /\ EndedPolls = {1}
    /\ procs[1].op = "install"
    /\ procs[1].exit = 1
    /\ procs[1].checks = 30
    /\ procs[1].slept = 58

\* ------------------------------------------------------------------------
\* Removing a clone
\* ------------------------------------------------------------------------

\* the workspace config entries of name
ConfigEntriesOf(c, name) == SelectSeq(c, LAMBDA e : e.name = name)

\* everything kept for the instance name is the same after the step as
\* before: its directory, metadata, files, database, config entry and
\* containers
InstanceUntouched(name) ==
    /\ (name \in dirs') = (name \in dirs)
    /\ (name \in DOMAIN info') = (name \in DOMAIN info)
    /\ name \in DOMAIN info => info'[name] = info[name]
    /\ (name \in DOMAIN wp') = (name \in DOMAIN wp)
    /\ name \in DOMAIN wp => wp'[name] = wp[name]
    /\ (name \in DOMAIN tree') = (name \in DOMAIN tree)
    /\ name \in DOMAIN tree => tree'[name] = tree[name]
    /\ (name \in DOMAIN db') = (name \in DOMAIN db)
    /\ name \in DOMAIN db => db'[name] = db[name]
    /\ ConfigEntriesOf(cfg', name) = ConfigEntriesOf(cfg, name)
    /\ containers'[name] = containers[name]

\* C39: removing an instance that was cloned with the symlink strategy
\* deletes only its own directory tree and the reference: the source's
\* WordPress files, database, config entry and containers, and those of
\* every other instance, are present and unchanged afterwards, and a
\* completed remove leaves nothing of the clone.
C39_RemoveOfSymlinkCloneSparesSource ==
    [][(CommandStep /\ last'.op = "remove" /\ last'.name \in DOMAIN wp
          /\ wp[last'.name].kind = "link") =>
            /\ \A name \in Names \ {last'.name} : InstanceUntouched(name)
            /\ last'.exit = 0 =>
                  /\ last'.name \notin dirs'
                  /\ last'.name \notin DOMAIN wp'
                  /\ last'.name \notin ConfigNames(cfg')]_vars

\* a symlink clone of the original was removed (in SpecShare every
\* instance but the original is a symlink clone), and the original still
\* has its file, its row, its config entry and its running containers
C39_Witness ==
    /\ last.op = "remove"
    /\ last.exit = 0
    /\ last.name # Original
    /\ last.name \notin dirs
    /\ Original \in DOMAIN tree
    /\ tree[Original] = FileNames
    /\ db[Original] = RowIds
    /\ Original \in ConfigNames(cfg)
    /\ \A s \in Services : containers[Original][s] = "running"

\* ------------------------------------------------------------------------
\* The source of a clone
\* ------------------------------------------------------------------------

\* C40: clone leaves its source unchanged for every strategy: the source's
\* config entry, port, network, credentials, files, database contents and
\* the running or stopped state of each of its containers are the same
\* after the clone as before.
C40_CloneLeavesSourceUnchanged ==
    [][(CommandStep /\ last'.op = "clone" /\ last'.src \in DOMAIN info
          /\ last'.arg \in Strategies) =>
            InstanceUntouched(last'.src)]_vars

====
